---- MODULE Spec2Model ----
(***************************************************************************)
(* Model of modio.py: the Device driver of an Olimex MOD-IO board on an    *)
(* SMBus, its Relay / DigitalIn views and the command line entry point.    *)
(*                                                                         *)
(* A Device method is an operator from the object's fields and the         *)
(* transport's answers to a result record                                  *)
(*   [self, outcome, ret, trace]                                           *)
(* self    : the fields after the call                                     *)
(* outcome : "ok" or the exception that left the method                    *)
(* ret     : <<v>> for a returned value v, <<>> for None / no return       *)
(* trace   : the transport calls the method issued, in order               *)
(* An attribute that was never assigned is the empty sequence, an assigned *)
(* one is <<v>> (relay_status) or the list itself (digital_ins).           *)
(***************************************************************************)
EXTENDS Integers, Sequences, FiniteSets, TLC

VARIABLES board, lastRelayWrite, call, outcome, ret, trace,
          relayView, dinView, argv, exit

vars == <<board, lastRelayWrite, call, outcome, ret, trace,
          relayView, dinView, argv, exit>>

----------------------------------------------------------------------------
(* Bounds of the inputs                                                    *)

\* integer arguments of the Device methods range over -MaxNeg..MaxArg
MaxNeg == 5
MaxArg == 9
\* the command line has at most MaxArgs words after the program name
MaxArgs == 4

Args == (0 - MaxNeg)..MaxArg

\* bytes the board answers to a block read: data[0] and data[1]
LowBytes == {0, 5, 57}
HighBytes == {0, 1}

\* addresses handed to ChangeAddress
NewAddresses == {0 - 1, 0, 80, 255, 256}

----------------------------------------------------------------------------
(* Register map, class attributes of Device                                *)

DEFAULT_ADDRESS == 72
DEFAULT_BUS == 1
RELAY_WRITE_COMMAND == 64
DIGITAL_IN_COMMAND == 3
CHANGE_ADDRESS_COMMAND == 176
AIN_READ_COMMAND == 16

\* Names bound at module level of modio.py. A bare name inside a method is
\* looked up here (and in the builtins), never in the class body.
ModuleGlobals == {"smbus", "sys", "logging", "DeviceNotFoundException",
                  "SMBBusNotConfiguredProperly", "SmbBus", "FakeBus",
                  "Device", "DigitalIn", "Relay", "PrintHelp",
                  "HandleRelay", "HandleReadAin", "main"}

----------------------------------------------------------------------------
(* Exceptions. The five Invalid* outcomes are all ValueError in the code,  *)
(* told apart by the raise statement they come from.                       *)

InvalidRelayValue == "ValueError: Invalid relay value"
InvalidRelayNumber == "ValueError: Invalid relay"
InvalidAnalogInput == "ValueError: analog input"
InvalidDigitalInput == "ValueError: Invalid digital in"
InvalidAddress == "ValueError: Invalid address"
InvalidLiteral == "ValueError: invalid literal for int()"
DeviceUnreachable == "DeviceNotFoundException"
TransportUnavailable == "SMBBusNotConfiguredProperly"
NameError == "NameError"

IsValueError(o) ==
  o \in {InvalidRelayValue, InvalidRelayNumber, InvalidAnalogInput,
         InvalidDigitalInput, InvalidAddress, InvalidLiteral}

----------------------------------------------------------------------------
(* Python integer operators                                                *)

RECURSIVE BitAnd(_, _)
BitAnd(x, y) ==
  IF x = 0 \/ y = 0 THEN 0
  ELSE IF x = 0 - 1 THEN y
  ELSE IF y = 0 - 1 THEN x
  ELSE (x % 2) * (y % 2) + 2 * BitAnd(x \div 2, y \div 2)

RECURSIVE BitOr(_, _)
BitOr(x, y) ==
  IF x = 0 THEN y
  ELSE IF y = 0 THEN x
  ELSE IF x = 0 - 1 \/ y = 0 - 1 THEN 0 - 1
  ELSE (IF x % 2 = 1 \/ y % 2 = 1 THEN 1 ELSE 0)
       + 2 * BitOr(x \div 2, y \div 2)

BitNot(x) == 0 - x - 1

RECURSIVE Shl(_, _)
Shl(x, k) == IF k = 0 THEN x ELSE Shl(2 * x, k - 1)

\* list[i] of Python: a negative index counts from the end; <<>> stands
\* for IndexError
Index(list, i) ==
  IF i >= 0 /\ i < Len(list) THEN <<list[i + 1]>>
  ELSE IF i < 0 /\ i >= 0 - Len(list) THEN <<list[Len(list) + i + 1]>>
  ELSE <<>>

----------------------------------------------------------------------------
(* Transport: SmbBus. ack / rd are the answer of the bus to the call.      *)
(* A call that is not acknowledged raises DeviceNotFoundException.         *)
(* FakeBus.Write is the case where every write is acknowledged; FakeBus    *)
(* has no ReadBlock and is not modelled for reads.                         *)

Res(self, o, r, tr) == [self |-> self, outcome |-> o, ret |-> r, trace |-> tr]

WriteCall(self, key, value, ack) ==
  [op |-> "Write", address |-> self.address, key |-> key, value |-> value,
   ok |-> ack, data |-> <<>>]

ReadBlockCall(self, key, length, rd) ==
  [op |-> "ReadBlock", address |-> self.address, key |-> key,
   value |-> length, ok |-> rd.ok, data |-> rd.data]

ReadResponses ==
  {[ok |-> FALSE, data |-> <<>>]}
  \cup {[ok |-> TRUE, data |-> <<lo, hi>>] : lo \in LowBytes, hi \in HighBytes}

\* the relay register of the board after the bus carried the calls of tr
RECURSIVE RelayRegisterAfter(_, _)
RelayRegisterAfter(reg, tr) ==
  IF tr = <<>> THEN reg
  ELSE LET e == Head(tr) IN
       RelayRegisterAfter(
         IF e.op = "Write" /\ e.ok /\ e.key = RELAY_WRITE_COMMAND
         THEN <<e.value>> ELSE reg,
         Tail(tr))

----------------------------------------------------------------------------
(* Device                                                                  *)

GetRelays(self) == Res(self, "ok", self.relay_status, <<>>)

\* slip: the cache is assigned before the bus write
SetRelays_CacheBeforeWrite(self, value, ack) ==
  IF value < 0 \/ value > 4
  THEN Res(self, InvalidRelayValue, <<>>, <<>>)
  ELSE LET w == WriteCall(self, RELAY_WRITE_COMMAND, value, ack) IN
       IF ~ack
       THEN Res([self EXCEPT !.relay_status = <<value>>], DeviceUnreachable,
                <<>>, <<w>>)
       ELSE Res([self EXCEPT !.relay_status = <<value>>], "ok",
                <<value>>, <<w>>)

\* slip: the bound of a 4-bit mask
SetRelays_NibbleBound(self, value, ack) ==
  IF value < 0 \/ value > 15
  THEN Res(self, InvalidRelayValue, <<>>, <<>>)
  ELSE LET w == WriteCall(self, RELAY_WRITE_COMMAND, value, ack) IN
       IF ~ack
       THEN Res(self, DeviceUnreachable, <<>>, <<w>>)
       ELSE Res([self EXCEPT !.relay_status = <<value>>], "ok",
                <<value>>, <<w>>)

SetRelays(self, value, ack) ==
  IF value < 0 \/ value > 4
  THEN Res(self, InvalidRelayValue, <<>>, <<>>)
  ELSE LET w == WriteCall(self, RELAY_WRITE_COMMAND, value, ack) IN
       IF ~ack
       THEN Res(self, DeviceUnreachable, <<>>, <<w>>)
       ELSE Res([self EXCEPT !.relay_status = <<value>>], "ok",
                <<value>>, <<w>>)

\* slip: the four relays of the first MOD-IO board
GetRelayBit_FourRelays(self, relay) ==
  IF relay < 1 \/ relay > 4
  THEN Res(self, InvalidRelayNumber, <<>>, <<>>)
  ELSE Res(self, "ok", <<Shl(1, relay - 1)>>, <<>>)

GetRelayBit(self, relay) ==
  IF relay < 1 \/ relay > 2
  THEN Res(self, InvalidRelayNumber, <<>>, <<>>)
  ELSE Res(self, "ok", <<Shl(1, relay - 1)>>, <<>>)

IsRelayClosed(self, relay) ==
  LET b == GetRelayBit(self, relay) IN
  IF b.outcome # "ok" THEN b
  ELSE IF BitAnd(GetRelays(self).ret[1], b.ret[1]) # 0
       THEN Res(self, "ok", <<TRUE>>, <<>>)
       ELSE Res(self, "ok", <<FALSE>>, <<>>)

CloseContactRelay(self, relay, ack) ==
  LET b == GetRelayBit(self, relay) IN
  IF b.outcome # "ok" THEN b
  ELSE LET s == SetRelays(self, BitOr(GetRelays(self).ret[1], b.ret[1]), ack)
       IN Res(s.self, s.outcome, <<>>, s.trace)

\* slip: the relay's bit is not inverted
OpenContactRelay_NoInvert(self, relay, ack) ==
  LET b == GetRelayBit(self, relay) IN
  IF b.outcome # "ok" THEN b
  ELSE LET s == SetRelays(self,
                          BitAnd(GetRelays(self).ret[1],
                                 BitAnd(b.ret[1], 15)),
                          ack)
       IN Res(s.self, s.outcome, <<>>, s.trace)

OpenContactRelay(self, relay, ack) ==
  LET b == GetRelayBit(self, relay) IN
  IF b.outcome # "ok" THEN b
  ELSE LET s == SetRelays(self,
                          BitAnd(GetRelays(self).ret[1],
                                 BitAnd(BitNot(b.ret[1]), 15)),
                          ack)
       IN Res(s.self, s.outcome, <<>>, s.trace)

\* slip: inputs counted from 0
GetReadAinCommand_ZeroBased(self, ain) ==
  IF ain < 1 \/ ain > 8
  THEN Res(self, InvalidAnalogInput, <<>>, <<>>)
  ELSE Res(self, "ok", <<AIN_READ_COMMAND + ain>>, <<>>)

GetReadAinCommand(self, ain) ==
  IF ain < 1 \/ ain > 8
  THEN Res(self, InvalidAnalogInput, <<>>, <<>>)
  ELSE Res(self, "ok", <<AIN_READ_COMMAND + ain - 1>>, <<>>)

ReadAin(self, ain, ack, rd) ==
  LET c == GetReadAinCommand(self, ain) IN
  IF c.outcome # "ok" THEN c
  ELSE LET command == c.ret[1]
           w == WriteCall(self, command, 1, ack)
           r == ReadBlockCall(self, command, 2, rd)
       IN IF ~ack THEN Res(self, DeviceUnreachable, <<>>, <<w>>)
          ELSE IF ~rd.ok THEN Res(self, DeviceUnreachable, <<>>, <<w, r>>)
          ELSE Res(self, "ok", <<rd.data[1] + Shl(rd.data[2], 8)>>, <<w, r>>)

GetDigitalIns(self, rd) ==
  LET r == ReadBlockCall(self, DIGITAL_IN_COMMAND, 2, rd) IN
  IF ~rd.ok THEN Res(self, DeviceUnreachable, <<>>, <<r>>)
  ELSE LET data == rd.data IN
       Res([self EXCEPT !.digital_ins =
              <<BitAnd(data[1], 1), BitAnd(data[1], 2),
                BitAnd(data[1], 4), BitAnd(data[1], 8)>>],
           "ok", <<>>, <<r>>)

GetDigitalIn(self, digital_in, rd) ==
  LET g == GetDigitalIns(self, rd) IN
  IF g.outcome # "ok" THEN g
  ELSE LET v == Index(g.self.digital_ins, digital_in) IN
       IF v = <<>> THEN Res(g.self, InvalidDigitalInput, <<>>, g.trace)
       ELSE Res(g.self, "ok", <<v[1] # 0>>, g.trace)

ChangeAddress(self, new_address, ack) ==
  IF new_address < 0 \/ new_address > 255
  THEN Res(self, InvalidAddress, <<>>, <<>>)
  ELSE IF "CHANGE_ADDRESS_COMMAND" \notin ModuleGlobals
  THEN Res(self, NameError, <<>>, <<>>)
  ELSE LET w == WriteCall(self, CHANGE_ADDRESS_COMMAND, new_address, ack) IN
       IF ~ack THEN Res(self, DeviceUnreachable, <<>>, <<w>>)
       ELSE Res([self EXCEPT !.address = new_address], "ok", <<>>, <<w>>)

\* Device.__init__: self is <<>> when no object came to exist
DeviceInit(address, bus, busOK, ack) ==
  IF ~busOK THEN Res(<<>>, TransportUnavailable, <<>>, <<>>)
  ELSE LET fresh == [address |-> address, relay_status |-> <<>>,
                     digital_ins |-> <<>>]
           s == SetRelays(fresh, 0, ack)
       IN IF s.outcome # "ok" THEN Res(<<>>, s.outcome, <<>>, s.trace)
          ELSE Res(<<s.self>>, "ok", <<>>, s.trace)

----------------------------------------------------------------------------
(* Relay and DigitalIn views: ret is the view, <<number>>                  *)

\* slip: the number is not checked
RelayInit_NoCheck(self, number) == Res(self, "ok", <<number>>, <<>>)

RelayInit(self, number) ==
  LET b == GetRelayBit(self, number) IN
  IF b.outcome # "ok" THEN b
  ELSE Res(self, "ok", <<number>>, <<>>)

DigitalInInit(self, number) == Res(self, "ok", <<number>>, <<>>)

RelayIsClosed(self, view) == IsRelayClosed(self, view[1])

RelayGet(self, view) == RelayIsClosed(self, view)

RelayOpenContact(self, view, ack) == OpenContactRelay(self, view[1], ack)

RelayCloseContact(self, view, ack) == CloseContactRelay(self, view[1], ack)

DigitalInGet(self, view, rd) == GetDigitalIn(self, view[1], rd)

----------------------------------------------------------------------------
(* Command line. A word of argv is the sequence of its characters.         *)

PROG == <<"m", "o", "d", "i", "o">>
RELAY == <<"r", "e", "l", "a", "y">>
READ_AIN == <<"r", "e", "a", "d", "-", "a", "i", "n">>
OPEN == <<"o", "p", "e", "n">>
CLOSE == <<"c", "l", "o", "s", "e">>

Words == {RELAY, READ_AIN, OPEN, CLOSE,
          <<"1">>, <<"2">>, <<"3">>, <<"-", "1">>, <<"x">>}

DigitChars == {"0", "1", "2", "3", "4", "5", "6", "7", "8", "9"}

DigitVal(c) ==
  CASE c = "0" -> 0 [] c = "1" -> 1 [] c = "2" -> 2 [] c = "3" -> 3
    [] c = "4" -> 4 [] c = "5" -> 5 [] c = "6" -> 6 [] c = "7" -> 7
    [] c = "8" -> 8 [] c = "9" -> 9

RECURSIVE DigitsValue(_, _)
DigitsValue(acc, s) ==
  IF s = <<>> THEN acc
  ELSE DigitsValue(10 * acc + DigitVal(Head(s)), Tail(s))

\* int(word): <<n>>, or <<>> for ValueError
IntLiteral(word) ==
  LET signed == word # <<>> /\ Head(word) \in {"-", "+"}
      body == IF signed THEN Tail(word) ELSE word
  IN IF body = <<>> \/ \E i \in 1..Len(body) : body[i] \notin DigitChars
     THEN <<>>
     ELSE IF signed /\ Head(word) = "-"
          THEN <<0 - DigitsValue(0, body)>>
          ELSE <<DigitsValue(0, body)>>

\* the end of the process: exit status, the exception that ended it if
\* one did, what it printed on stdout, the Device it built, the bus calls
Proc(e, o, printed, b, tr) ==
  [exit |-> e, outcome |-> o, printed |-> printed, board |-> b, trace |-> tr]

\* an exception nobody catches: traceback, exit status 1
Uncaught(o, b, tr) == Proc(1, o, <<>>, b, tr)

HandleRelay(args, busOK, ack1, ack2) ==
  IF Len(args) # 2 THEN Proc(10, "ok", <<>>, <<>>, <<>>)
  ELSE LET status == args[1] IN
  IF status \notin {OPEN, CLOSE} THEN Proc(11, "ok", <<>>, <<>>, <<>>)
  ELSE LET relay == args[2]
           d == DeviceInit(DEFAULT_ADDRESS, DEFAULT_BUS, busOK, ack1)
       IN
  IF d.outcome # "ok" THEN Uncaught(d.outcome, <<>>, d.trace)
  ELSE LET n == IntLiteral(relay) IN
  IF n = <<>> THEN Proc(12, "ok", <<>>, d.self, d.trace)
  ELSE LET r == IF status = OPEN
                THEN CloseContactRelay(d.self[1], n[1], ack2)
                ELSE OpenContactRelay(d.self[1], n[1], ack2)
       IN
  IF IsValueError(r.outcome)
  THEN Proc(12, "ok", <<>>, <<r.self>>, d.trace \o r.trace)
  ELSE IF r.outcome # "ok"
  THEN Uncaught(r.outcome, <<r.self>>, d.trace \o r.trace)
  ELSE Proc(0, "ok", <<>>, <<r.self>>, d.trace \o r.trace)

HandleReadAin(args, busOK, ack1, ack2, rd) ==
  IF Len(args) # 1 THEN Proc(20, "ok", <<>>, <<>>, <<>>)
  ELSE LET ain == args[1]
           d == DeviceInit(DEFAULT_ADDRESS, DEFAULT_BUS, busOK, ack1)
       IN
  IF d.outcome # "ok" THEN Uncaught(d.outcome, <<>>, d.trace)
  ELSE LET n == IntLiteral(ain) IN
  IF n = <<>> THEN Proc(21, "ok", <<>>, d.self, d.trace)
  ELSE LET r == ReadAin(d.self[1], n[1], ack2, rd) IN
  IF IsValueError(r.outcome)
  THEN Proc(21, "ok", <<>>, <<r.self>>, d.trace \o r.trace)
  ELSE IF r.outcome # "ok"
  THEN Uncaught(r.outcome, <<r.self>>, d.trace \o r.trace)
  ELSE Proc(0, "ok", r.ret, <<r.self>>, d.trace \o r.trace)

main(args, busOK, ack1, ack2, rd) ==
  IF Len(args) < 2 THEN Proc(1, "ok", <<>>, <<>>, <<>>)
  ELSE LET command == args[2] IN
  IF command = RELAY
  THEN HandleRelay(SubSeq(args, 3, Len(args)), busOK, ack1, ack2)
  ELSE IF command = READ_AIN
  THEN HandleReadAin(SubSeq(args, 3, Len(args)), busOK, ack1, ack2, rd)
  ELSE Proc(2, "ok", <<>>, <<>>, <<>>)

----------------------------------------------------------------------------
(* State machine                                                           *)
(* board          : <<>> or <<self>>, the Device the program holds         *)
(* lastRelayWrite : <<>> or <<v>>, the last value the bus carried to       *)
(*                  register RELAY_WRITE_COMMAND                           *)
(* call, outcome, ret, trace : the last call and its result                *)
(* relayView, dinView : <<>> or <<number>>, the views the program holds    *)
(* argv, exit     : the last command line and its exit status              *)

Init ==
  /\ board = <<>>
  /\ lastRelayWrite = <<>>
  /\ call = [op |-> "none", arg |-> 0]
  /\ outcome = "none"
  /\ ret = <<>>
  /\ trace = <<>>
  /\ relayView = <<>>
  /\ dinView = <<>>
  /\ argv = <<>>
  /\ exit = <<>>

\* the fields of the Device the program holds
dev == board[1]

Done(op, arg, r) ==
  /\ board' = <<r.self>>
  /\ lastRelayWrite' = RelayRegisterAfter(lastRelayWrite, r.trace)
  /\ call' = [op |-> op, arg |-> arg]
  /\ outcome' = r.outcome
  /\ ret' = r.ret
  /\ trace' = r.trace
  /\ UNCHANGED <<argv, exit>>

Construct ==
  /\ board = <<>>
  /\ \E busOK \in BOOLEAN, ack \in BOOLEAN :
       LET r == DeviceInit(DEFAULT_ADDRESS, DEFAULT_BUS, busOK, ack) IN
       /\ board' = r.self
       /\ lastRelayWrite' = RelayRegisterAfter(lastRelayWrite, r.trace)
       /\ call' = [op |-> "Device", arg |-> DEFAULT_ADDRESS]
       /\ outcome' = r.outcome
       /\ ret' = r.ret
       /\ trace' = r.trace
  /\ UNCHANGED <<relayView, dinView, argv, exit>>

CallSetRelays ==
  /\ board # <<>>
  /\ \E value \in Args, ack \in BOOLEAN :
       Done("SetRelays", value, SetRelays(dev, value, ack))
  /\ UNCHANGED <<relayView, dinView>>

CallGetRelays ==
  /\ board # <<>>
  /\ Done("GetRelays", 0, GetRelays(dev))
  /\ UNCHANGED <<relayView, dinView>>

CallGetRelayBit ==
  /\ board # <<>>
  /\ \E relay \in Args : Done("GetRelayBit", relay, GetRelayBit(dev, relay))
  /\ UNCHANGED <<relayView, dinView>>

CallIsRelayClosed ==
  /\ board # <<>>
  /\ \E relay \in Args :
       Done("IsRelayClosed", relay, IsRelayClosed(dev, relay))
  /\ UNCHANGED <<relayView, dinView>>

CallCloseContactRelay ==
  /\ board # <<>>
  /\ \E relay \in Args, ack \in BOOLEAN :
       Done("CloseContactRelay", relay, CloseContactRelay(dev, relay, ack))
  /\ UNCHANGED <<relayView, dinView>>

CallOpenContactRelay ==
  /\ board # <<>>
  /\ \E relay \in Args, ack \in BOOLEAN :
       Done("OpenContactRelay", relay, OpenContactRelay(dev, relay, ack))
  /\ UNCHANGED <<relayView, dinView>>

CallReadAin ==
  /\ board # <<>>
  /\ \E ain \in Args, ack \in BOOLEAN, rd \in ReadResponses :
       Done("ReadAin", ain, ReadAin(dev, ain, ack, rd))
  /\ UNCHANGED <<relayView, dinView>>

CallGetDigitalIns ==
  /\ board # <<>>
  /\ \E rd \in ReadResponses : Done("GetDigitalIns", 0, GetDigitalIns(dev, rd))
  /\ UNCHANGED <<relayView, dinView>>

CallGetDigitalIn ==
  /\ board # <<>>
  /\ \E digital_in \in Args, rd \in ReadResponses :
       Done("GetDigitalIn", digital_in, GetDigitalIn(dev, digital_in, rd))
  /\ UNCHANGED <<relayView, dinView>>

CallChangeAddress ==
  /\ board # <<>>
  /\ \E new_address \in NewAddresses, ack \in BOOLEAN :
       Done("ChangeAddress", new_address,
            ChangeAddress(dev, new_address, ack))
  /\ UNCHANGED <<relayView, dinView>>

Next ==
  \/ Construct
  \/ CallSetRelays
  \/ CallGetRelays
  \/ CallGetRelayBit
  \/ CallIsRelayClosed
  \/ CallCloseContactRelay
  \/ CallOpenContactRelay
  \/ CallReadAin
  \/ CallGetDigitalIns
  \/ CallGetDigitalIn
  \/ CallChangeAddress

Spec == Init /\ [][Next]_vars

----------------------------------------------------------------------------
(* The views over one Device                                               *)

NewRelay ==
  /\ board # <<>>
  /\ \E number \in Args :
       LET r == RelayInit(dev, number) IN
       /\ Done("Relay", number, r)
       /\ relayView' = IF r.outcome = "ok" THEN r.ret ELSE relayView
  /\ UNCHANGED dinView

NewDigitalIn ==
  /\ board # <<>>
  /\ \E number \in Args :
       LET r == DigitalInInit(dev, number) IN
       /\ Done("DigitalIn", number, r)
       /\ dinView' = IF r.outcome = "ok" THEN r.ret ELSE dinView
  /\ UNCHANGED relayView

CallRelayIsClosed ==
  /\ board # <<>> /\ relayView # <<>>
  /\ Done("Relay.IsClosed", relayView[1], RelayIsClosed(dev, relayView))
  /\ UNCHANGED <<relayView, dinView>>

CallRelayGet ==
  /\ board # <<>> /\ relayView # <<>>
  /\ Done("Relay.Get", relayView[1], RelayGet(dev, relayView))
  /\ UNCHANGED <<relayView, dinView>>

CallRelayOpenContact ==
  /\ board # <<>> /\ relayView # <<>>
  /\ \E ack \in BOOLEAN :
       Done("Relay.OpenContact", relayView[1],
            RelayOpenContact(dev, relayView, ack))
  /\ UNCHANGED <<relayView, dinView>>

CallRelayCloseContact ==
  /\ board # <<>> /\ relayView # <<>>
  /\ \E ack \in BOOLEAN :
       Done("Relay.CloseContact", relayView[1],
            RelayCloseContact(dev, relayView, ack))
  /\ UNCHANGED <<relayView, dinView>>

CallDigitalInGet ==
  /\ board # <<>> /\ dinView # <<>>
  /\ \E rd \in ReadResponses :
       Done("DigitalIn.Get", dinView[1], DigitalInGet(dev, dinView, rd))
  /\ UNCHANGED <<relayView, dinView>>

NextViews ==
  \/ Construct
  \/ NewRelay
  \/ NewDigitalIn
  \/ CallRelayIsClosed
  \/ CallRelayGet
  \/ CallRelayOpenContact
  \/ CallRelayCloseContact
  \/ CallDigitalInGet

SpecViews == Init /\ [][NextViews]_vars

----------------------------------------------------------------------------
(* The command line: one run of the program, from its start to its exit   *)

RECURSIVE SeqsUpTo(_, _)
SeqsUpTo(S, n) ==
  IF n = 0 THEN {<<>>}
  ELSE LET shorter == SeqsUpTo(S, n - 1) IN
       shorter \cup {Append(s, w) : s \in shorter, w \in S}

CommandLines == {<<PROG>> \o words : words \in SeqsUpTo(Words, MaxArgs)}

CallMain ==
  /\ exit = <<>>
  /\ \E args \in CommandLines, busOK \in BOOLEAN, ack1 \in BOOLEAN,
     ack2 \in BOOLEAN, rd \in ReadResponses :
       LET p == main(args, busOK, ack1, ack2, rd) IN
       /\ argv' = args
       /\ exit' = <<p.exit>>
       /\ board' = p.board
       /\ lastRelayWrite' = RelayRegisterAfter(lastRelayWrite, p.trace)
       /\ call' = [op |-> "main", arg |-> 0]
       /\ outcome' = p.outcome
       /\ ret' = p.printed
       /\ trace' = p.trace
  /\ UNCHANGED <<relayView, dinView>>

NextCLI == CallMain

SpecCLI == Init /\ [][NextCLI]_vars

----------------------------------------------------------------------------
(* Properties                                                              *)

\* every transport call of tr was acknowledged
Acked(tr) == \A i \in 1..Len(tr) : tr[i].ok

IsWrite(e, address, key, value) ==
  e.op = "Write" /\ e.address = address /\ e.key = key /\ e.value = value

IsReadBlock(e, address, key, length) ==
  e.op = "ReadBlock" /\ e.address = address /\ e.key = key /\ e.value = length

RelayOps == {"GetRelayBit", "IsRelayClosed", "CloseContactRelay",
             "OpenContactRelay"}

\* C1: whenever a Device exists, GetRelays() is the last value the bus
\* carried to register 0x40; construction first writes 0 there, so
\* GetRelays() is 0 right after it, and 1 after a following
\* CloseContactRelay(1).
C1_RelayStateMirrorsLastWrite ==
  /\ [](board # <<>> =>
          /\ lastRelayWrite # <<>>
          /\ GetRelays(dev).ret = lastRelayWrite)
  /\ [](call.op = "Device" =>
          /\ trace # <<>> =>
               IsWrite(trace[1], DEFAULT_ADDRESS, 64, 0)
          /\ outcome = "ok" => trace # <<>> /\ GetRelays(dev).ret = <<0>>)
  /\ [][(/\ call.op = "Device" /\ outcome = "ok"
         /\ call'.op = "CloseContactRelay" /\ call'.arg = 1
         /\ outcome' = "ok")
        => GetRelays(dev').ret = <<1>>]_vars

C1_Witness ==
  /\ call.op = "CloseContactRelay" /\ call.arg = 1 /\ outcome = "ok"
  /\ GetRelays(dev).ret = <<1>>
  /\ lastRelayWrite = <<1>>

\* C2: CloseContactRelay(n) with n in 1..2 succeeds in every state, and
\* IsRelayClosed(n) right after it returns true (the bus acknowledging).
C2_CloseThenIsClosed ==
  (call.op = "CloseContactRelay" /\ call.arg \in 1..2 /\ Acked(trace)) =>
    /\ outcome = "ok"
    /\ IsRelayClosed(dev, call.arg).ret = <<TRUE>>

\* C3: OpenContactRelay(n) with n in 1..2 never fails validation: it issues
\* one write to register 0x40 and, the bus acknowledging it, succeeds, and
\* IsRelayClosed(n) right after it returns false.
C3_OpenThenIsOpen ==
  (call.op = "OpenContactRelay" /\ call.arg \in 1..2) =>
    /\ Len(trace) = 1 /\ trace[1].op = "Write" /\ trace[1].key = 64
    /\ outcome = IF Acked(trace) THEN "ok" ELSE DeviceUnreachable
    /\ outcome = "ok" => IsRelayClosed(dev, call.arg).ret = <<FALSE>>

C3_Witness ==
  /\ call.op = "OpenContactRelay" /\ call.arg = 1 /\ outcome = "ok"
  /\ GetRelays(dev).ret = <<2>>
  /\ IsRelayClosed(dev, 1).ret = <<FALSE>>

\* C4: `relay close N` writes a mask with the bit of relay N set, `relay
\* open N` one with that bit cleared; exit status 0 for N in 1..2, 10 for a
\* wrong number of arguments, 11 for a word other than open / close, 12 for
\* an invalid relay number.
C4_RelayCommandLine ==
  (exit # <<>> /\ Len(argv) >= 2 /\ argv[2] = RELAY /\ outcome = "ok") =>
    LET args == SubSeq(argv, 3, Len(argv)) IN
    IF Len(args) # 2 THEN exit = <<10>>
    ELSE IF args[1] \notin {OPEN, CLOSE} THEN exit = <<11>>
    ELSE IF args[2] \notin {<<"1">>, <<"2">>} THEN exit = <<12>>
    ELSE LET bit == IF args[2] = <<"1">> THEN 1 ELSE 2 IN
         /\ exit = <<0>>
         /\ lastRelayWrite # <<>>
         /\ args[1] = CLOSE => BitAnd(lastRelayWrite[1], bit) = bit
         /\ args[1] = OPEN => BitAnd(lastRelayWrite[1], bit) = 0

\* C5: ChangeAddress(a) with a in 0..255 writes a to register 0xB0 at the
\* old address and then targets a; outside 0..255 it fails with
\* InvalidAddress, without a transport call, the address unchanged.
C5_ChangeAddress ==
  [][call'.op = "ChangeAddress" =>
       IF call'.arg \in 0..255
       THEN /\ Len(trace') = 1
            /\ IsWrite(trace'[1], dev.address, 176, call'.arg)
            /\ Acked(trace') => outcome' = "ok" /\ dev'.address = call'.arg
       ELSE /\ outcome' = InvalidAddress
            /\ trace' = <<>>
            /\ dev'.address = dev.address]_vars

\* C6: GetDigitalIn(n) with n outside 0..3 fails with InvalidDigitalInput
\* before any hardware access: no transport call, the cache unchanged.
C6_GetDigitalInRejects ==
  [][(call'.op = "GetDigitalIn" /\ call'.arg \notin 0..3) =>
       /\ outcome' = InvalidDigitalInput
       /\ trace' = <<>>
       /\ dev'.digital_ins = dev.digital_ins]_vars

\* C7 as stated: constructing a Relay view with a number outside 1..2, or
\* a DigitalIn view with a number outside 0..3, fails without a transport
\* call.
C7_ViewsRejectAtConstruction ==
  /\ (call.op = "Relay" /\ call.arg \notin 1..2) =>
       outcome # "ok" /\ trace = <<>>
  /\ (call.op = "DigitalIn" /\ call.arg \notin 0..3) =>
       outcome # "ok" /\ trace = <<>>

\* C7 amended: constructing a Relay view with a number outside 1..2 fails
\* at once with InvalidRelayNumber, makes no transport call and yields no
\* view; constructing a DigitalIn view checks nothing: it succeeds for
\* every number and makes no transport call.
C7_RelayRejectsDigitalInAccepts ==
  [][/\ (call'.op = "Relay" /\ call'.arg \notin 1..2) =>
          /\ outcome' = InvalidRelayNumber
          /\ trace' = <<>>
          /\ relayView' = relayView
          /\ board' = board /\ lastRelayWrite' = lastRelayWrite
     /\ (call'.op = "Relay" /\ call'.arg \in 1..2) =>
          outcome' = "ok" /\ relayView' = <<call'.arg>> /\ trace' = <<>>
     /\ call'.op = "DigitalIn" =>
          /\ outcome' = "ok"
          /\ trace' = <<>>
          /\ dinView' = <<call'.arg>>
          /\ board' = board /\ lastRelayWrite' = lastRelayWrite]_vars

C7_Witness ==
  /\ call.op = "Relay" /\ call.arg = 3 /\ outcome = InvalidRelayNumber
  /\ trace = <<>>
  /\ dinView = <<4>>

\* C8: SetRelays(m) with m outside 0..4 fails with InvalidRelayValue,
\* writes nothing and leaves GetRelays() as it was; with m in 0..4 it
\* issues one write of m to register 0x40 and, the bus acknowledging it,
\* returns m, and GetRelays() returns m afterwards.
C8_SetRelays ==
  [][call'.op = "SetRelays" =>
       IF call'.arg \notin 0..4
       THEN /\ outcome' = InvalidRelayValue
            /\ trace' = <<>>
            /\ GetRelays(dev').ret = GetRelays(dev).ret
            /\ lastRelayWrite' = lastRelayWrite
       ELSE /\ Len(trace') = 1
            /\ IsWrite(trace'[1], dev.address, 64, call'.arg)
            /\ outcome' = IF Acked(trace') THEN "ok" ELSE DeviceUnreachable
            /\ outcome' = "ok" =>
                 /\ ret' = <<call'.arg>>
                 /\ GetRelays(dev').ret = <<call'.arg>>]_vars

C8_Witness ==
  /\ call.op = "SetRelays" /\ call.arg = 5 /\ outcome = InvalidRelayValue
  /\ trace = <<>>
  /\ GetRelays(dev).ret = <<3>>

====
